---- MODULE Spec2Model ----
(***************************************************************************)
(* A model of the GnuCash MCP server (src/server.py): the session          *)
(* life cycle over a ledger store guarded by a lock file, the account      *)
(* resolver, and the construction of two-split transfer transactions.      *)
(*                                                                         *)
(* Every handler of server.py is an operator from the process state and    *)
(* the handler's inputs to the state the handler leaves behind; an action  *)
(* applies one handler in full.  The gnucash library (Session, Transaction,*)
(* Split) and the operating system (os.path.exists, os.remove, pgrep) are   *)
(* modelled by their effect at the call sites of server.py; an outcome     *)
(* that the code cannot control (the probe's answer, a failing deletion, a *)
(* failing save or open, an exception inside the edit scope) is an input   *)
(* chosen by the action.                                                   *)
(***************************************************************************)
EXTENDS Integers, Sequences, FiniteSets, TLC

(***************************************************************************)
(* Bounds of the model.                                                    *)
(***************************************************************************)
\* Session objects constructed in one run.
MaxSessions == 3
\* Transactions held by one book.
MaxTx == 2
\* Calls of add_transaction in the specification of add_transaction alone.
MaxTxCalls == 1
\* Invocations of the exit handler in one run.
MaxCleanups == 2
\* Accounts of a tree and characters of a query in the resolver's own check.
MaxAccounts == 3
MaxQueryLen == 2

(***************************************************************************)
(* Strings are sequences of one-character strings, so that endswith, `in`  *)
(* and lower() are computed character by character.                        *)
(***************************************************************************)
Lower(c) ==
    CASE c = "A" -> "a" [] c = "B" -> "b" [] c = "C" -> "c" [] c = "E" -> "e"
      [] c = "J" -> "j" [] c = "Z" -> "z"
      [] OTHER -> c

lower(s) == [i \in 1..Len(s) |-> Lower(s[i])]

\* str.endswith(t)
EndsWith(s, t) ==
    /\ Len(t) <= Len(s)
    /\ \A i \in 1..Len(t) : s[Len(s) - Len(t) + i] = t[i]

\* t in s
Contains(s, t) ==
    \E k \in 0..(Len(s) - Len(t)) : \A i \in 1..Len(t) : s[k + i] = t[i]

Dot == <<".">>

\* The least element of a non-empty set of integers.
Min(S) == CHOOSE x \in S : \A y \in S : x <= y

(***************************************************************************)
(* find_account (lines 85-102).  descendants is the sequence of full names *)
(* in the order root.get_descendants() yields them; the result is the      *)
(* position of the account returned, 0 for None.                           *)
(***************************************************************************)
\* The first loop: exact match or suffix match, whichever comes first.
FirstExactOrSuffix(descendants, account_name) ==
    LET hits == {i \in 1..Len(descendants) :
                    \/ descendants[i] = account_name
                    \/ EndsWith(descendants[i], Dot \o account_name)}
    IN IF hits = {} THEN 0 ELSE Min(hits)

\* The second loop: case-insensitive partial match.
FirstPartial(descendants, account_name) ==
    LET account_lower == lower(account_name)
        hits == {i \in 1..Len(descendants) :
                    Contains(lower(descendants[i]), account_lower)}
    IN IF hits = {} THEN 0 ELSE Min(hits)

find_account(descendants, account_name) ==
    IF FirstExactOrSuffix(descendants, account_name) # 0
    THEN FirstExactOrSuffix(descendants, account_name)
    ELSE FirstPartial(descendants, account_name)

(***************************************************************************)
(* The ledger held by every store of the model: the accounts in the order  *)
(* root.get_descendants() yields them (pre-order), each with the mnemonic  *)
(* of its commodity ("none": no commodity set).                            *)
(***************************************************************************)
AccountTree ==
    << [full_name |-> <<"A">>,           commodity |-> "USD"],
       [full_name |-> <<"A", ".", "B">>, commodity |-> "USD"],
       [full_name |-> <<"E">>,           commodity |-> "EUR"],
       [full_name |-> <<"C">>,           commodity |-> "none"],
       [full_name |-> <<"J">>,           commodity |-> "JPY"] >>

\* acc.get_full_name() over root.get_descendants()
FullNames(tree) == [i \in 1..Len(tree) |-> tree[i].full_name]

\* commodity.get_fraction(): the denominator of the commodity's smallest unit.
get_fraction(mnemonic) == IF mnemonic = "JPY" THEN 1 ELSE 100

(***************************************************************************)
(* Amounts.  The float `amount` is modelled exactly, as an integer number  *)
(* of thousandths; round() is Python's: to the nearest integer, a tie to   *)
(* the even neighbour.                                                     *)
(***************************************************************************)
AmountUnit == 1000

round(n, d) ==
    LET q == n \div d
        r == n % d
    IN IF 2 * r < d THEN q
       ELSE IF 2 * r > d THEN q + 1
       ELSE IF q % 2 = 0 THEN q ELSE q + 1

\* amount_int without the multiplication by the fraction.
amount_int_unscaled(amount, fraction) == round(amount, AmountUnit)

\* amount_int = round(amount * fraction)     (line 473)
amount_int(amount, fraction) == round(amount * fraction, AmountUnit)

(***************************************************************************)
(* Dates.  A date argument is absent (NoDate) or a <<year, month, day>>    *)
(* triple; strptime(date, "%Y-%m-%d") accepts the triples that are         *)
(* calendar dates.                                                         *)
(***************************************************************************)
NoDate == <<>>

DaysIn(y, m) ==
    IF m = 2 THEN (IF y % 4 = 0 /\ (y % 100 # 0 \/ y % 400 = 0) THEN 29 ELSE 28)
    ELSE IF m \in {4, 6, 9, 11} THEN 30 ELSE 31

strptime_ok(date) ==
    /\ date[2] \in 1..12
    /\ date[3] \in 1..DaysIn(date[1], date[2])

(***************************************************************************)
(* The process state a handler works on, as one record W:                  *)
(*   write_mode       the global write_mode                                *)
(*   current_session  the global current_session: a session id, 0 for None *)
(*   live             the Session objects opened and not yet ended, each   *)
(*                    [id, path, rw]                                       *)
(*   opened           how many Session objects have been constructed       *)
(*   lock             per store path, its .LCK file: "none", "foreign"     *)
(*                    (left by the GnuCash application) or "own" (held by  *)
(*                    a read-write session of this process)                *)
(*   book             current_session.book: the transactions in memory     *)
(*   disk             per store path, the transactions saved in the file   *)
(*   calls            the library and file-system calls of the handler     *)
(*                    running, in the order it makes them                  *)
(*   probes           the answers is_gnucash_running() gave the handler    *)
(*   result, out      what the handler returns: the kind of its text and   *)
(*                    the data the text renders                            *)
(***************************************************************************)
None == 0

Paths == {"ledger", "other", "missing"}

\* os.path.exists(file_path): the stores that exist.
ExistingFiles == {"ledger", "other"}

Call(fn, ok) == [fn |-> fn, ok |-> ok]

Log(W, fn, ok) == [W EXCEPT !.calls = Append(@, Call(fn, ok))]

\* The Session object current_session refers to.
CurrentOf(W) == {s \in W.live : s.id = W.current_session}

(***************************************************************************)
(* is_gnucash_running (lines 31-41).  outcome is what pgrep did: "running" *)
(* (exit status 0), "absent" (another exit status) or "failed" (pgrep      *)
(* missing, or the 5 s timeout expired: subprocess.run raised).            *)
(***************************************************************************)
ProbeOutcomes == {"running", "absent", "failed"}

\* is_gnucash_running answering False whatever pgrep did.
is_gnucash_running_never(outcome) == FALSE

\* is_gnucash_running with `return True` in its except clause: a probe that
\* could not be made counts as GnuCash running.
is_gnucash_running_failsafe(outcome) == outcome \in {"running", "failed"}

is_gnucash_running(outcome) ==
    CASE outcome = "running" -> TRUE
      [] outcome = "absent"  -> FALSE
      [] outcome = "failed"  -> FALSE    \* except Exception: return False

\* One call of is_gnucash_running by a handler: the answer is recorded.
Probe(W, outcome) == [W EXCEPT !.probes = Append(@, outcome)]

(***************************************************************************)
(* What the code cannot control is a choice among outcomes: a handler is   *)
(* an operator from the state and its arguments to the set of states it    *)
(* may leave behind, one per course its environment can take.              *)
(***************************************************************************)
(***************************************************************************)
(* remove_stale_lock (lines 44-62): the probe it makes answers any way,    *)
(* and os.remove succeeds or raises.                                       *)
(***************************************************************************)
\* Lines 56-62: os.remove(lock_path) inside try/except.
RemoveLock(W, file_path) ==
    { [Log(W, "remove", TRUE) EXCEPT !.lock[file_path] = "none"],
      Log(W, "remove", FALSE) }

remove_stale_lock(W, file_path) ==
    IF W.lock[file_path] = "none" THEN {W}
    ELSE UNION { IF is_gnucash_running(outcome)
                 THEN {Probe(W, outcome)}
                 ELSE RemoveLock(Probe(W, outcome), file_path) :
                 outcome \in ProbeOutcomes }

(***************************************************************************)
(* The gnucash Session, at the call sites of server.py.                    *)
(***************************************************************************)
\* current_session.end(): the session is no longer live; a read-write
\* session gives up the lock file it holds.
SessionEnd(W) ==
    IF CurrentOf(W) = {} THEN Log(W, "end", TRUE)
    ELSE LET s == CHOOSE s \in CurrentOf(W) : TRUE
         IN [Log(W, "end", TRUE) EXCEPT
                !.live = @ \ {s},
                !.lock[s.path] = IF s.rw /\ @ = "own" THEN "none" ELSE @]

\* Whether Session(file_path, mode) raises for the lock: SESSION_NORMAL_OPEN
\* fails on a locked store; SESSION_READ_ONLY ignores the lock.
SessionLocked(W, file_path) == W.write_mode /\ W.lock[file_path] # "none"

\* current_session = Session(file_path, mode), when it does not raise: the
\* book is loaded from the file; a read-write session takes the lock.
SessionOpen(W, file_path) ==
    LET id == W.opened + 1
    IN [Log(W, "Session", TRUE) EXCEPT
            !.opened = id,
            !.current_session = id,
            !.live = @ \cup {[id |-> id, path |-> file_path, rw |-> W.write_mode]},
            !.lock[file_path] = IF W.write_mode THEN "own" ELSE @,
            !.book = W.disk[file_path]]

\* current_session.save(), when it does not raise: the file of the session's
\* store holds the book.
SessionSave(W) ==
    IF CurrentOf(W) = {} THEN Log(W, "save", TRUE)
    ELSE LET s == CHOOSE s \in CurrentOf(W) : TRUE
         IN [Log(W, "save", TRUE) EXCEPT !.disk[s.path] = W.book]

Return(W, result) == [W EXCEPT !.result = result]

Answer(W, result, out) == [W EXCEPT !.result = result, !.out = out]

(***************************************************************************)
(* open_file (lines 127-164).                                              *)
(***************************************************************************)
\* open_file dropping its reference to the session without ending it.
CloseExistingUnended(W) == [W EXCEPT !.current_session = None, !.book = <<>>]

\* if current_session: current_session.end(); current_session = None
CloseExisting(W) ==
    IF W.current_session # None
    THEN [SessionEnd(W) EXCEPT !.current_session = None, !.book = <<>>]
    ELSE W

\* The Session(...) call of open_file and of main, and what becomes of it:
\* it raises for the lock, raises for another backend error, or returns.
OpenStore(W, file_path) ==
    IF SessionLocked(W, file_path)
    THEN {Return(Log(W, "Session", FALSE), "ErrorLocked")}
    ELSE {Return(Log(W, "Session", FALSE), "ErrorOpening"),
          Return(SessionOpen(W, file_path), "Opened")}

\* Lines 146-151 and 569-576: the lock file exists and is to be broken.  The
\* caller probes; when GnuCash is found running it gives up (open_file
\* returns the error, main exits), otherwise it calls remove_stale_lock and
\* goes on to open the store.
BreakLockThenOpen(W, file_path) ==
    UNION { IF is_gnucash_running(outcome)
            THEN {Return(Probe(W, outcome), "CannotBreakLock")}
            ELSE UNION {OpenStore(X, file_path) :
                           X \in remove_stale_lock(Probe(W, outcome), file_path)} :
            outcome \in ProbeOutcomes }

\* open_file testing os.path.exists before it closes the existing session.
open_file_exists_first(W, file_path, break_lock) ==
    IF file_path \notin ExistingFiles THEN {Return(W, "FileNotFound")}
    ELSE IF break_lock /\ CloseExisting(W).lock[file_path] # "none"
         THEN BreakLockThenOpen(CloseExisting(W), file_path)
         ELSE OpenStore(CloseExisting(W), file_path)

open_file(W, file_path, break_lock) ==
    LET W1 == CloseExisting(W)
    IN IF file_path \notin ExistingFiles THEN {Return(W1, "FileNotFound")}
       ELSE IF break_lock /\ W1.lock[file_path] # "none"
            THEN BreakLockThenOpen(W1, file_path)
            ELSE OpenStore(W1, file_path)

(***************************************************************************)
(* close_file (lines 167-176).                                             *)
(***************************************************************************)
close_file(W) ==
    IF W.current_session # None
    THEN {Return([SessionEnd(W) EXCEPT !.current_session = None, !.book = <<>>], "Closed")}
    ELSE {Return(W, "NothingOpen")}

(***************************************************************************)
(* cleanup_session (lines 65-82), the exit handler.  When                  *)
(* current_session.save() raises, the except clause is entered from the    *)
(* save and the end() after it is not executed.                            *)
(***************************************************************************)
Forget(W) == [W EXCEPT !.current_session = None, !.book = <<>>]

\* cleanup_session without the auto-save: the session is only ended.
cleanup_session_unsaved(W) ==
    IF W.current_session = None THEN {Return(W, "Nothing")}
    ELSE {Return(Forget(SessionEnd(W)), "CleanedUp")}

cleanup_session(W) ==
    IF W.current_session = None THEN {Return(W, "Nothing")}
    ELSE IF W.write_mode
         THEN {Return(Forget(SessionEnd(SessionSave(W))), "CleanedUp"),
               Return(Forget(Log(W, "save", FALSE)), "CleanupError")}
         ELSE {Return(Forget(SessionEnd(W)), "CleanedUp")}

(***************************************************************************)
(* commit (lines 512-527).                                                 *)
(***************************************************************************)
\* commit without the test of current_session.
commit_unchecked(W) ==
    {Return(SessionSave(W), "Committed"),
     Return(Log(W, "save", FALSE), "ErrorCommitting")}

commit(W) ==
    IF W.current_session = None THEN {Return(W, "NoSession")}
    ELSE {Return(SessionSave(W), "Committed"),
          Return(Log(W, "save", FALSE), "ErrorCommitting")}

(***************************************************************************)
(* The read tools (lines 179-407).  Each returns get_no_file_error() when  *)
(* no session is open and leaves the state as it is.                       *)
(***************************************************************************)
\* The account search written out in get_account_balance, get_transactions
\* and get_account_info (lines 217-234, 264-280, 352-368): the first loop
\* tests full_name.endswith(account_name), without a separator.
FirstExactOrTail(descendants, account_name) ==
    LET hits == {i \in 1..Len(descendants) :
                    \/ descendants[i] = account_name
                    \/ EndsWith(descendants[i], account_name)}
    IN IF hits = {} THEN 0 ELSE Min(hits)

target_account(descendants, account_name) ==
    IF FirstExactOrTail(descendants, account_name) # 0
    THEN FirstExactOrTail(descendants, account_name)
    ELSE FirstPartial(descendants, account_name)

\* All splits of a book, transaction by transaction.
RECURSIVE AllSplits(_)
AllSplits(txs) ==
    IF txs = <<>> THEN <<>> ELSE txs[1].splits \o AllSplits(Tail(txs))

\* account.GetSplitList()
GetSplitList(txs, account) ==
    SelectSeq(AllSplits(txs), LAMBDA sp : sp.account = account)

RECURSIVE SumNum(_)
SumNum(splits) == IF splits = <<>> THEN 0 ELSE splits[1].num + SumNum(Tail(splits))

\* account.GetBalance(), as a numerator over the commodity's fraction.
GetBalance(txs, account) == SumNum(GetSplitList(txs, account))

\* splits[-limit:], Python's slice: for limit > 0 the last limit items (all
\* of them when there are fewer), for limit = 0 the whole list (-0 is 0),
\* for limit < 0 the items after the first -limit.
LastSlice(splits, limit) ==
    LET n     == Len(splits)
        start == IF limit > 0 THEN (IF n - limit > 0 THEN n - limit ELSE 0)
                 ELSE IF 0 - limit < n THEN 0 - limit ELSE n
    IN SubSeq(splits, start + 1, n)

\* sorted(accounts): the positions of the tree in the order of their lines.
\* The lines of the model's tree sort in the order Before gives.
CharRank(c) ==
    CASE c = "." -> 1 [] c = "A" -> 2 [] c = "B" -> 3 [] c = "C" -> 4 [] c = "E" -> 5
      [] c = "J" -> 6 [] c = "Z" -> 7 [] c = "a" -> 8 [] c = "b" -> 9 [] c = "c" -> 10
      [] c = "e" -> 11 [] c = "j" -> 12 [] c = "z" -> 13
      [] OTHER -> 14

\* s < t, as Python compares strings: by the first character that differs,
\* a proper prefix first.
RECURSIVE Before(_, _)
Before(s, t) ==
    IF t = <<>> THEN FALSE
    ELSE IF s = <<>> THEN TRUE
    ELSE IF s[1] # t[1] THEN CharRank(s[1]) < CharRank(t[1])
    ELSE Before(Tail(s), Tail(t))

\* sorted(names): the names in ascending order.
RECURSIVE sorted(_)
sorted(names) ==
    IF names = {} THEN <<>>
    ELSE LET first == CHOOSE n \in names : \A m \in names \ {n} : Before(n, m)
         IN <<first>> \o sorted(names \ {first})

\* list_accounts returning the lines in the order of the enumeration.
list_accounts_unsorted(W) ==
    IF W.current_session = None THEN {Return(W, "NoSession")}
    ELSE {Answer(W, "Listed", FullNames(AccountTree))}

list_accounts(W) ==
    IF W.current_session = None THEN {Return(W, "NoSession")}
    ELSE {Answer(W, "Listed",
                 sorted({AccountTree[i].full_name : i \in 1..Len(AccountTree)}))}

get_account_balance(W, account_name) ==
    LET target == target_account(FullNames(AccountTree), account_name)
    IN IF W.current_session = None THEN {Return(W, "NoSession")}
       ELSE IF target = 0 THEN {Return(W, "AccountNotFound")}
       ELSE {Answer(W, "Balance",
                    [account |-> target, balance |-> GetBalance(W.book, target)])}

get_transactions(W, account_name, limit) ==
    LET target == target_account(FullNames(AccountTree), account_name)
        splits == GetSplitList(W.book, target)
    IN IF W.current_session = None THEN {Return(W, "NoSession")}
       ELSE IF target = 0 THEN {Return(W, "AccountNotFound")}
       ELSE IF splits = <<>> THEN {Answer(W, "NoTransactions", [account |-> target])}
       ELSE {Answer(W, "Transactions",
                    [account |-> target, lines |-> LastSlice(splits, limit)])}

search_accounts(W, query) ==
    LET names   == FullNames(AccountTree)
        matches == {names[i] : i \in {j \in 1..Len(names) :
                                         Contains(lower(names[j]), lower(query))}}
    IN IF W.current_session = None THEN {Return(W, "NoSession")}
       ELSE IF matches = {} THEN {Return(W, "NoMatches")}
       ELSE {Answer(W, "Found", sorted(matches))}

get_account_info(W, account_name) ==
    LET target == target_account(FullNames(AccountTree), account_name)
    IN IF W.current_session = None THEN {Return(W, "NoSession")}
       ELSE IF target = 0 THEN {Return(W, "AccountNotFound")}
       ELSE {Answer(W, "Info",
                    [account |-> target, balance |-> GetBalance(W.book, target),
                     num_splits |-> Len(GetSplitList(W.book, target))])}

(***************************************************************************)
(* add_transaction (lines 410-509).  A transaction of the book is          *)
(* [currency, splits, open]: open is TRUE from Transaction(book) and       *)
(* BeginEdit until CommitEdit has returned.  A split is [account, num,     *)
(* den]: the account's position in the tree and the GncNumeric of its      *)
(* value (its amount is set to the same GncNumeric).                       *)
(*                                                                         *)
(* A statement of the edit scope may raise; faults names the ones that     *)
(* may: "split_from" (lines 485-491, with the split created and attached,  *)
(* its value not yet set), "split_to" (lines 494-500, likewise) and        *)
(* "CommitEdit" (line 503).  An exception is caught at line 508; nothing   *)
(* there destroys the transaction or rolls the edit back.                  *)
(***************************************************************************)
Faults == {"split_from", "split_to", "CommitEdit"}

\* Split(book) after SetParent and SetAccount: the value is still zero.
BlankSplit(account) == [account |-> account, num |-> 0, den |-> 1]

\* The source split given the amount itself, not its negation.
SourceSplitUnsigned(account, n, fraction) ==
    [account |-> account, num |-> n, den |-> fraction]

\* split_from.SetValue(GncNumeric(-amount_int, fraction))
SourceSplit(account, n, fraction) == [account |-> account, num |-> 0 - n, den |-> fraction]

\* The destination split given the sign of the source split.
DestSplitNegated(account, n, fraction) ==
    [account |-> account, num |-> 0 - n, den |-> fraction]

\* split_to.SetValue(GncNumeric(amount_int, fraction))
DestSplit(account, n, fraction) == [account |-> account, num |-> n, den |-> fraction]

Tx(currency, splits, open) == [currency |-> currency, splits |-> splits, open |-> open]

\* Lines 475-506: the edit scope, and the states it may leave.
CreateTransaction(W, src, dst, currency, n, fraction, faults) ==
    LET from == SourceSplit(src, n, fraction)
        to   == DestSplit(dst, n, fraction)
        W1   == Log(W, "Transaction", TRUE)
        W2   == Log(W1, "split_from", TRUE)
        W3   == Log(W2, "split_to", TRUE)
        Raised(fault) ==
            CASE fault = "split_from" ->
                   [Log(W1, "split_from", FALSE) EXCEPT
                       !.book = Append(@, Tx(currency, <<BlankSplit(src)>>, TRUE))]
              [] fault = "split_to" ->
                   [Log(W2, "split_to", FALSE) EXCEPT
                       !.book = Append(@, Tx(currency, <<from, BlankSplit(dst)>>, TRUE))]
              [] fault = "CommitEdit" ->
                   [Log(W3, "CommitEdit", FALSE) EXCEPT
                       !.book = Append(@, Tx(currency, <<from, to>>, TRUE))]
    IN {Return([Log(W3, "CommitEdit", TRUE) EXCEPT
                   !.book = Append(@, Tx(currency, <<from, to>>, FALSE))], "Created")}
       \cup {Return(Raised(fault), "ErrorCreating") : fault \in faults}

\* add_transaction testing the amount after it has resolved the accounts.
add_transaction_late_amount(W, from_account, to_account, amount, date, faults) ==
    LET names == FullNames(AccountTree)
        src   == find_account(names, from_account)
        dst   == find_account(names, to_account)
    IN IF W.current_session = None THEN {Return(W, "NoSession")}
       ELSE IF src = 0 THEN {Return(W, "SourceNotFound")}
       ELSE IF dst = 0 THEN {Return(W, "DestNotFound")}
       ELSE IF amount <= 0 THEN {Return(W, "InvalidAmount")}
       ELSE IF AccountTree[src].commodity = "none" THEN {Return(W, "MissingCommodity")}
       ELSE IF /\ AccountTree[dst].commodity # "none"
               /\ AccountTree[src].commodity # AccountTree[dst].commodity
            THEN {Return(W, "CurrencyMismatch")}
       ELSE IF date # NoDate /\ ~strptime_ok(date) THEN {Return(W, "InvalidDate")}
       ELSE CreateTransaction(W, src, dst, AccountTree[src].commodity,
                              amount_int(amount, get_fraction(AccountTree[src].commodity)),
                              get_fraction(AccountTree[src].commodity), faults)

\* add_transaction saving the session once the edit scope is left.
add_transaction_saving(W, from_account, to_account, amount, date, faults) ==
    {Return(SessionSave(X), X.result) :
        X \in CreateTransaction(W, 1, 2, "USD", amount_int(amount, 100), 100, faults)}

add_transaction(W, from_account, to_account, amount, date, faults) ==
    LET names == FullNames(AccountTree)
        src   == find_account(names, from_account)
        dst   == find_account(names, to_account)
    IN IF W.current_session = None THEN {Return(W, "NoSession")}
       ELSE IF amount <= 0 THEN {Return(W, "InvalidAmount")}
       ELSE IF src = 0 THEN {Return(W, "SourceNotFound")}
       ELSE IF dst = 0 THEN {Return(W, "DestNotFound")}
       ELSE IF AccountTree[src].commodity = "none" THEN {Return(W, "MissingCommodity")}
       ELSE IF /\ AccountTree[dst].commodity # "none"
               /\ AccountTree[src].commodity # AccountTree[dst].commodity
            THEN {Return(W, "CurrencyMismatch")}
       ELSE IF date # NoDate /\ ~strptime_ok(date) THEN {Return(W, "InvalidDate")}
       ELSE LET currency == AccountTree[src].commodity
                fraction == get_fraction(currency)
            IN CreateTransaction(W, src, dst, currency,
                                 amount_int(amount, fraction), fraction, faults)

(***************************************************************************)
(* main (lines 530-609).  write is args.write, env_file the value of       *)
(* GNUCASH_FILE (NoFile: not set or empty).  A sys.exit(1) leaves the      *)
(* process exiting with status 1.                                          *)
(***************************************************************************)
NoFile == ""

ReadTools ==
    {"list_accounts", "get_account_balance", "get_transactions",
     "search_accounts", "get_account_info"}

WriteTools == {"add_transaction", "commit"}

\* main registering the write tools in either mode.
RegisteredToolsAll(write) == ReadTools \cup WriteTools

\* Lines 589-607: the functions main registers with mcp.tool().
RegisteredTools(write) == ReadTools \cup (IF write THEN WriteTools ELSE {})

\* The failure reported but sys.exit(1) left out: main goes on to register
\* the tools and to run the server.
Exit1Ignored(W) ==
    Return([W EXCEPT !.advertised = RegisteredTools(W.write_mode),
                     !.phase = "serving"], "Serving")

Exit1(W) == Return([W EXCEPT !.phase = "exiting", !.exit_code = 1], "Exit1")

\* Lines 578-609 once Session(...) has returned or raised.
Serve(W) ==
    IF W.result = "Opened"
    THEN Return([W EXCEPT !.advertised = RegisteredTools(W.write_mode),
                          !.phase = "serving"], "Serving")
    ELSE Exit1(W)

main(W, write, env_file) ==
    LET W0 == [W EXCEPT !.write_mode = write]
        W1 == [W0 EXCEPT !.configured_file = env_file]
    IN IF env_file = NoFile THEN {Exit1(W0)}
       ELSE IF env_file \notin ExistingFiles THEN {Exit1(W1)}
       ELSE {Serve(X) : X \in IF W1.lock[env_file] # "none"
                              THEN BreakLockThenOpen(W1, env_file)
                              ELSE OpenStore(W1, env_file)}

(***************************************************************************)
(* The state of the process.                                               *)
(***************************************************************************)
VARIABLES
    phase,            \* "start" (before main), "serving" (mcp.run()), "exiting"
                      \* (sys.exit called), "exited" (the exit handler has run)
    exit_code,        \* the exit status, -1 while the process runs
    write_mode,       \* global write_mode
    configured_file,  \* global configured_file
    advertised,       \* the tools registered with mcp
    current_session,  \* global current_session
    live,             \* Session objects opened and not ended
    opened,           \* Session objects constructed so far
    lock,             \* the .LCK file of each store path
    book,             \* current_session.book
    disk,             \* the saved content of each store
    cleanups,         \* invocations of cleanup_session so far
    txCalls,          \* calls of add_transaction counted by SpecTx
    last,             \* the last handler run: [op, args, result, out, calls, probes]
    rTree, rQuery, rFound,  \* the resolver's own check: tree, query, result
    rTarget           \* ... and the result of the search the read tools make

vars == <<phase, exit_code, write_mode, configured_file, advertised,
          current_session, live, opened, lock, book, disk, cleanups, txCalls,
          last, rTree, rQuery, rFound, rTarget>>

\* What the handlers of the served process leave alone.
resolverVars == <<txCalls, rTree, rQuery, rFound, rTarget>>

\* The state as the record a handler works on, its log empty.
Now ==
    [phase |-> phase, exit_code |-> exit_code, write_mode |-> write_mode,
     configured_file |-> configured_file, advertised |-> advertised,
     current_session |-> current_session, live |-> live, opened |-> opened,
     lock |-> lock, book |-> book, disk |-> disk,
     calls |-> <<>>, probes |-> <<>>, result |-> "none", out |-> <<>>]

\* The handler op, called with args, leaves the state W.
Becomes(W, op, args) ==
    /\ phase' = W.phase
    /\ exit_code' = W.exit_code
    /\ write_mode' = W.write_mode
    /\ configured_file' = W.configured_file
    /\ advertised' = W.advertised
    /\ current_session' = W.current_session
    /\ live' = W.live
    /\ opened' = W.opened
    /\ lock' = W.lock
    /\ book' = W.book
    /\ disk' = W.disk
    /\ last' = [op |-> op, args |-> args, result |-> W.result, out |-> W.out,
                calls |-> W.calls, probes |-> W.probes]

NoCall ==
    [op |-> "none", args |-> <<>>, result |-> "none", out |-> <<>>,
     calls |-> <<>>, probes |-> <<>>]

\* The module as loaded (lines 11-21), beside stores whose lock files the
\* GnuCash application may have left behind.
Init ==
    /\ phase = "start"
    /\ exit_code = -1
    /\ write_mode = FALSE
    /\ configured_file = NoFile
    /\ advertised = {}
    /\ current_session = None
    /\ live = {}
    /\ opened = 0
    /\ lock \in {f \in [Paths -> {"none", "foreign"}] :
                    \A p \in Paths \ ExistingFiles : f[p] = "none"}
    /\ book = <<>>
    /\ disk = [p \in Paths |-> <<>>]
    /\ cleanups = 0
    /\ txCalls = 0
    /\ last = NoCall
    /\ rTree = <<>>
    /\ rQuery = <<>>
    /\ rFound = 0
    /\ rTarget = 0

(***************************************************************************)
(* The inputs the actions draw from.                                       *)
(***************************************************************************)
\* Account names given to add_transaction in the life-cycle specification.
SessionTxFrom == {<<"A">>}
SessionTxTo == {<<"B">>, <<"E">>}
SessionTxAmounts == {0, 15}
SessionTxFaults == {"split_to"}

\* Arguments given to the read tools in the life-cycle specification.
SessionReadNames == {<<"B">>}
SessionLimits == {0, 1, 3}

\* ... and in the specification of add_transaction alone.
TxNames == {<<"A">>, <<"B">>, <<"E">>, <<"C">>, <<"J">>, <<"Z">>}
TxAmounts == {0 - 10, 0, 4, 10, 15, 2000, 12340}
TxDates == {NoDate, <<2024, 2, 29>>, <<2023, 2, 29>>}

(***************************************************************************)
(* The actions: one per handler.                                           *)
(***************************************************************************)
Main ==
    /\ phase = "start"
    /\ \E write \in BOOLEAN, env_file \in Paths \cup {NoFile} :
          \E W \in main(Now, write, env_file) :
             Becomes(W, "main", [write |-> write, env_file |-> env_file])
    /\ UNCHANGED <<cleanups, resolverVars>>

\* open_file and close_file are module-level functions that main registers
\* no tool for: they are called directly.
OpenFile ==
    /\ phase = "serving"
    /\ opened < MaxSessions
    /\ \E file_path \in Paths, break_lock \in BOOLEAN :
          \E W \in open_file(Now, file_path, break_lock) :
             Becomes(W, "open_file", [file_path |-> file_path, break_lock |-> break_lock])
    /\ UNCHANGED <<cleanups, resolverVars>>

CloseFile ==
    /\ phase = "serving"
    /\ \E W \in close_file(Now) : Becomes(W, "close_file", <<>>)
    /\ UNCHANGED <<cleanups, resolverVars>>

ListAccounts ==
    /\ phase = "serving"
    /\ "list_accounts" \in advertised
    /\ \E W \in list_accounts(Now) : Becomes(W, "list_accounts", <<>>)
    /\ UNCHANGED <<cleanups, resolverVars>>

GetAccountBalance ==
    /\ phase = "serving"
    /\ "get_account_balance" \in advertised
    /\ \E account_name \in SessionReadNames :
          \E W \in get_account_balance(Now, account_name) :
             Becomes(W, "get_account_balance", [account_name |-> account_name])
    /\ UNCHANGED <<cleanups, resolverVars>>

GetTransactions ==
    /\ phase = "serving"
    /\ "get_transactions" \in advertised
    /\ \E account_name \in SessionReadNames, limit \in SessionLimits :
          \E W \in get_transactions(Now, account_name, limit) :
             Becomes(W, "get_transactions",
                     [account_name |-> account_name, limit |-> limit])
    /\ UNCHANGED <<cleanups, resolverVars>>

SearchAccounts ==
    /\ phase = "serving"
    /\ "search_accounts" \in advertised
    /\ \E query \in SessionReadNames :
          \E W \in search_accounts(Now, query) :
             Becomes(W, "search_accounts", [query |-> query])
    /\ UNCHANGED <<cleanups, resolverVars>>

GetAccountInfo ==
    /\ phase = "serving"
    /\ "get_account_info" \in advertised
    /\ \E account_name \in SessionReadNames :
          \E W \in get_account_info(Now, account_name) :
             Becomes(W, "get_account_info", [account_name |-> account_name])
    /\ UNCHANGED <<cleanups, resolverVars>>

AddTransactionWith(froms, tos, amounts, dates, faults) ==
    /\ phase = "serving"
    /\ "add_transaction" \in advertised
    /\ \E from_account \in froms, to_account \in tos, amount \in amounts, date \in dates :
          \E W \in add_transaction(Now, from_account, to_account, amount, date, faults) :
             Becomes(W, "add_transaction",
                     [from_account |-> from_account, to_account |-> to_account,
                      amount |-> amount, date |-> date])
    /\ UNCHANGED <<cleanups, rTree, rQuery, rFound, rTarget>>

AddTransaction ==
    /\ Len(book) < MaxTx
    /\ AddTransactionWith(SessionTxFrom, SessionTxTo, SessionTxAmounts, {NoDate},
                          SessionTxFaults)
    /\ UNCHANGED txCalls

Commit ==
    /\ phase = "serving"
    /\ "commit" \in advertised
    /\ \E W \in commit(Now) : Becomes(W, "commit", <<>>)
    /\ UNCHANGED <<cleanups, resolverVars>>

\* The exit handler registered at line 82: it runs when the process exits,
\* after mcp.run() has returned (status 0) or after sys.exit(1).
CleanupSession ==
    /\ phase # "start"
    /\ cleanups < MaxCleanups
    /\ \E W \in cleanup_session(Now) :
          Becomes([W EXCEPT !.phase = "exited",
                            !.exit_code = IF phase = "serving" THEN 0 ELSE @],
                  "cleanup_session", <<>>)
    /\ cleanups' = cleanups + 1
    /\ UNCHANGED resolverVars

Next ==
    \/ Main
    \/ OpenFile
    \/ CloseFile
    \/ ListAccounts
    \/ GetAccountBalance
    \/ GetTransactions
    \/ SearchAccounts
    \/ GetAccountInfo
    \/ AddTransaction
    \/ Commit
    \/ CleanupSession

Spec == Init /\ [][Next]_vars

(***************************************************************************)
(* add_transaction alone: a read-write session is open on "ledger" (main   *)
(* was started with --write and found no lock file), and add_transaction   *)
(* is called with every combination of its arguments, with the session     *)
(* open or after close_file has closed it.                                 *)
(***************************************************************************)
Loaded ==
    [phase |-> "start", exit_code |-> -1, write_mode |-> FALSE,
     configured_file |-> NoFile, advertised |-> {}, current_session |-> None,
     live |-> {}, opened |-> 0, lock |-> [p \in Paths |-> "none"],
     book |-> <<>>, disk |-> [p \in Paths |-> <<>>],
     calls |-> <<>>, probes |-> <<>>, result |-> "none", out |-> <<>>]

TxInit ==
    /\ \E W \in main(Loaded, TRUE, "ledger") :
          /\ W.result = "Serving"
          /\ phase = W.phase
          /\ exit_code = W.exit_code
          /\ write_mode = W.write_mode
          /\ configured_file = W.configured_file
          /\ advertised = W.advertised
          /\ current_session = W.current_session
          /\ live = W.live
          /\ opened = W.opened
          /\ lock = W.lock
          /\ book = W.book
          /\ disk = W.disk
          /\ last = [op |-> "main", args |-> [write |-> TRUE, env_file |-> "ledger"],
                     result |-> W.result, out |-> W.out,
                     calls |-> W.calls, probes |-> W.probes]
    /\ cleanups = 0
    /\ txCalls = 0
    /\ rTree = <<>>
    /\ rQuery = <<>>
    /\ rFound = 0
    /\ rTarget = 0

AddTransactionAny ==
    /\ txCalls < MaxTxCalls
    /\ AddTransactionWith(TxNames, TxNames, TxAmounts, TxDates, Faults)
    /\ txCalls' = txCalls + 1

TxNext ==
    \/ AddTransactionAny
    \/ Commit
    \/ CloseFile

SpecTx == TxInit /\ [][TxNext]_vars

(***************************************************************************)
(* Transfers one after another: a read-write session is open on "ledger"   *)
(* and add_transaction is called until the book holds MaxTx transactions,  *)
(* between accounts that differ and accounts that are the same, of         *)
(* fraction 100 and of fraction 1, into an account with and without a      *)
(* commodity.                                                              *)
(***************************************************************************)
TransferFrom == {<<"A">>, <<"B">>, <<"J">>}
TransferTo == {<<"B">>, <<"C">>, <<"J">>}
TransferAmounts == {15, 2000}

AddTransfer ==
    /\ Len(book) < MaxTx
    /\ AddTransactionWith(TransferFrom, TransferTo, TransferAmounts, {NoDate},
                          SessionTxFaults)
    /\ UNCHANGED txCalls

TransferNext == AddTransfer

SpecTransfer == TxInit /\ [][TransferNext]_vars

(***************************************************************************)
(* The resolvers alone: every account tree of at most MaxAccounts accounts *)
(* and every query of at most MaxQueryLen characters.                      *)
(***************************************************************************)
NameChars == {"A", "B", "b"}

QueryChars == NameChars \cup {"."}

\* Full names of accounts at depth 1 and 2.
FullNamePool ==
    {<<c>> : c \in NameChars} \cup {<<c, ".", d>> : c \in NameChars, d \in NameChars}

SeqsUpTo(S, n) == UNION {[1..k -> S] : k \in 0..n}

\* The enumerations get_descendants() can yield: full names are unique, and
\* the children of an account follow it, before the next top-level account.
IsPreOrder(t) ==
    /\ \A i, j \in 1..Len(t) : i # j => t[i] # t[j]
    /\ \A i \in 1..Len(t) :
          Len(t[i]) > 1 =>
             \E j \in 1..(i - 1) :
                /\ t[j] = <<t[i][1]>>
                /\ \A k \in (j + 1)..(i - 1) : Len(t[k]) > 1

Trees == {t \in SeqsUpTo(FullNamePool, MaxAccounts) : t # <<>> /\ IsPreOrder(t)}

Queries == SeqsUpTo(QueryChars, MaxQueryLen)

ResolveInit ==
    /\ phase = "start"
    /\ exit_code = -1
    /\ write_mode = FALSE
    /\ configured_file = NoFile
    /\ advertised = {}
    /\ current_session = None
    /\ live = {}
    /\ opened = 0
    /\ lock = [p \in Paths |-> "none"]
    /\ book = <<>>
    /\ disk = [p \in Paths |-> <<>>]
    /\ cleanups = 0
    /\ txCalls = 0
    /\ last = NoCall
    /\ rTree \in Trees
    /\ rQuery \in Queries
    /\ rFound = -1
    /\ rTarget = -1

Resolve ==
    /\ rFound = -1
    /\ rFound' = find_account(rTree, rQuery)
    /\ UNCHANGED <<phase, exit_code, write_mode, configured_file, advertised,
                   current_session, live, opened, lock, book, disk, cleanups,
                   txCalls, last, rTree, rQuery, rTarget>>

\* The search of get_account_balance, get_transactions and get_account_info,
\* applied to the same tree and query.
ResolveInline ==
    /\ rTarget = -1
    /\ rTarget' = target_account(rTree, rQuery)
    /\ UNCHANGED <<phase, exit_code, write_mode, configured_file, advertised,
                   current_session, live, opened, lock, book, disk, cleanups,
                   txCalls, last, rTree, rQuery, rFound>>

ResolveNext ==
    \/ Resolve
    \/ ResolveInline

SpecResolve == ResolveInit /\ [][ResolveNext]_vars

(***************************************************************************)
(* The properties.                                                         *)
(***************************************************************************)
\* The calls the last handler made.
CallsMade == {last.calls[i] : i \in 1..Len(last.calls)}

Made(fn) == \E c \in CallsMade : c.fn = fn

\* The store path the last open_file or main was given.
StorePath(l) == IF l.op = "main" THEN l.args.env_file ELSE l.args.file_path

\* The last handler consulted the probe: it was main or open_file breaking a
\* lock file that exists beside the store.
BrokeLock(l) == l.op \in {"open_file", "main"} /\ l.probes # <<>>

\* C1: balance law.  Every transaction add_transaction has committed has
\* exactly two splits over the fraction of the transaction's currency whose
\* numerators sum to zero, and the transaction just created carries
\* -scaled/fraction on the resolved source account and +scaled/fraction on
\* the resolved destination account, scaled = round(amount * fraction).
BalanceLaw ==
    /\ \A i \in 1..Len(book) :
          ~book[i].open =>
             /\ Len(book[i].splits) = 2
             /\ book[i].splits[1].den = get_fraction(book[i].currency)
             /\ book[i].splits[2].den = get_fraction(book[i].currency)
             /\ book[i].splits[1].num + book[i].splits[2].num = 0
             /\ book[i].splits[1].num <= 0
    /\ (last.op = "add_transaction" /\ last.result = "Created") =>
          LET names    == FullNames(AccountTree)
              src      == find_account(names, last.args.from_account)
              dst      == find_account(names, last.args.to_account)
              fraction == get_fraction(AccountTree[src].commodity)
              scaled   == amount_int(last.args.amount, fraction)
              tx       == book[Len(book)]
          IN /\ ~tx.open
             /\ tx.splits = << [account |-> src, num |-> 0 - scaled, den |-> fraction],
                               [account |-> dst, num |-> scaled, den |-> fraction] >>

\* C1 witness: a transfer of 0.015 between two different accounts has been
\* committed, with numerators -2 and 2 over 100.
BalanceLawWitness ==
    /\ last.op = "add_transaction"
    /\ last.result = "Created"
    /\ book[Len(book)].splits[2].num = 2
    /\ book[Len(book)].splits[1].account # book[Len(book)].splits[2].account

\* C2 (as amended): a lock file exists beside the store and the handler
\* probes.  When its probe reports GnuCash running, open_file and main fail,
\* no Session is constructed and the lock file stays.  Otherwise the handler
\* calls remove_stale_lock and goes on to open the store; the lock file is
\* deleted exactly when the probe remove_stale_lock makes does not report
\* GnuCash running and os.remove succeeds.  No step in which a probe
\* reported GnuCash running deletes the lock file.
LockReclamation ==
    [][ BrokeLock(last') =>
          /\ lock[StorePath(last')] = "foreign"
          /\ (\E i \in 1..Len(last'.probes) : last'.probes[i] = "running")
                => lock'[StorePath(last')] = lock[StorePath(last')]
          /\ last'.probes[1] = "running" =>
                /\ last'.result \in {"CannotBreakLock", "Exit1"}
                /\ \A i \in 1..Len(last'.calls) : last'.calls[i].fn # "Session"
                /\ current_session' = None
                /\ last'.op = "main" => (exit_code' = 1 /\ advertised' = {})
          /\ last'.probes[1] # "running" =>
                /\ Len(last'.probes) = 2
                /\ \E i \in 1..Len(last'.calls) : last'.calls[i].fn = "Session"
                /\ (lock'[StorePath(last')] # "foreign")
                      <=> /\ last'.probes[2] # "running"
                          /\ \A i \in 1..Len(last'.calls) :
                                last'.calls[i] # Call("remove", FALSE)
      ]_vars

\* C2 witness: open_file(break_lock = true) found the lock file, the probe
\* reported GnuCash running, and the call failed with the lock file in place.
LockReclamationWitness ==
    /\ last.op = "open_file"
    /\ last.args.break_lock
    /\ last.probes = <<"running">>
    /\ last.result = "CannotBreakLock"
    /\ lock[last.args.file_path] = "foreign"

\* C2 (as claimed): with the probe reporting GnuCash running the handler
\* fails and the lock file stays; with the probe reporting it absent the
\* lock file is removed and the open proceeds.
LockReclamationAsClaimed ==
    BrokeLock(last) =>
       /\ last.probes[1] = "running" =>
             /\ last.result \in {"CannotBreakLock", "Exit1"}
             /\ lock[StorePath(last)] = "foreign"
       /\ last.probes[1] = "absent" =>
             /\ lock[StorePath(last)] # "foreign"
             /\ Made("Session")

\* C3: exclusive session replacement.  At most one Session is live in any
\* state; open_file ends whatever session was open, as the first thing it
\* does, which releases the lock that session held, and when it succeeds
\* the session it constructed (after that end) is the only live one.
ExclusiveSession ==
    [][ /\ Cardinality(live') <= 1
        /\ last'.op = "open_file" =>
              /\ live' \cap live = {}
              /\ current_session # None => last'.calls[1] = Call("end", TRUE)
              /\ \A s \in live :
                    (s.rw /\ lock'[s.path] = "own") =>
                       (last'.result = "Opened" /\ s.path = last'.args.file_path)
              /\ last'.result = "Opened" =>
                    /\ live' = {[id |-> current_session',
                                 path |-> last'.args.file_path, rw |-> write_mode]}
                    /\ current_session' \notin {s.id : s \in live}
                    /\ \A i, j \in 1..Len(last'.calls) :
                          (last'.calls[i].fn = "end" /\ last'.calls[j].fn = "Session")
                             => i < j
      ]_vars

\* C3 witness: open_file has succeeded twice after the startup open, the
\* last time ending the session the earlier call had opened.
ExclusiveSessionWitness ==
    /\ last.op = "open_file"
    /\ last.result = "Opened"
    /\ opened = 3
    /\ last.calls[1] = Call("end", TRUE)
    /\ Cardinality(live) = 1

\* C4: write-mode gating.  In read-only mode add_transaction and commit are
\* never advertised, never run, no transaction exists and no store is saved;
\* in write mode the served process advertises both.
WriteModeGating ==
    /\ ~write_mode =>
          /\ advertised \cap WriteTools = {}
          /\ last.op \notin WriteTools
          /\ book = <<>>
          /\ \A p \in Paths : disk[p] = <<>>
          /\ ~Made("save")
    /\ (write_mode /\ phase = "serving") => WriteTools \subseteq advertised

\* C4 witness: a read-only process is serving and has answered a balance
\* query.
WriteModeGatingWitness ==
    /\ ~write_mode
    /\ phase = "serving"
    /\ advertised = ReadTools
    /\ last.op = "get_account_balance"
    /\ last.result = "Balance"

\* C5 (as claimed): an add_transaction call that does not report success
\* leaves the book as it was.
NoPartialTransaction ==
    [][ (last'.op = "add_transaction" /\ last'.result # "Created") => book' = book ]_vars

\* C7 (as claimed): once cleanup_session has run, no session is open, no
\* Session is live and no lock file is held by this process.
ExitReleasesLock ==
    (last.op = "cleanup_session" /\ phase = "exited") =>
       /\ current_session = None
       /\ live = {}
       /\ \A p \in Paths : lock[p] # "own"

\* The resolution C6 describes: three tiers, each scanning the whole
\* enumeration before the next is tried.
Tiered(descendants, account_name) ==
    LET exact   == {i \in 1..Len(descendants) : descendants[i] = account_name}
        suffix  == {i \in 1..Len(descendants) :
                       EndsWith(descendants[i], Dot \o account_name)}
        partial == {i \in 1..Len(descendants) :
                       Contains(lower(descendants[i]), lower(account_name))}
    IN IF exact # {} THEN Min(exact)
       ELSE IF suffix # {} THEN Min(suffix)
       ELSE IF partial # {} THEN Min(partial)
       ELSE 0

\* C6 (as claimed): resolver tiering.  find_account returns the first account
\* in enumeration order whose full name equals the query if there is one,
\* otherwise the first whose full name ends with "." + query, otherwise the
\* first whose lower-cased full name contains the lower-cased query,
\* otherwise none: an exact match wins over a suffix match wherever the two
\* accounts sit in the enumeration.
ResolverTiering == rFound # -1 => rFound = Tiered(rTree, rQuery)

\* C8: auto-save on exit.  When cleanup_session runs with a session open in
\* write mode its first call is current_session.save(), no end() is made
\* that a returned save() does not precede, and when save() returns the file
\* of the session's store holds the book and the session is then ended.  In
\* read-only mode the one call is end() and no file changes.  Every
\* invocation after the first finds no session and makes no call.
AutoSaveOnExit ==
    [][ (last'.op = "cleanup_session" /\ cleanups' # cleanups) =>
          /\ (current_session # None /\ write_mode) =>
                /\ last'.calls # <<>>
                /\ last'.calls[1].fn = "save"
                /\ \A j \in 1..Len(last'.calls) :
                      last'.calls[j].fn = "end" =>
                         \E i \in 1..(j - 1) : last'.calls[i] = Call("save", TRUE)
                /\ last'.calls[1].ok =>
                      /\ last'.calls = <<Call("save", TRUE), Call("end", TRUE)>>
                      /\ \A s \in live :
                            s.id = current_session => disk'[s.path] = book
          /\ (current_session # None /\ ~write_mode) =>
                /\ last'.calls = <<Call("end", TRUE)>>
                /\ disk' = disk
          /\ current_session = None =>
                /\ last'.calls = <<>>
                /\ disk' = disk
                /\ live' = live
                /\ lock' = lock
          /\ cleanups >= 1 => current_session = None
          /\ current_session' = None
      ]_vars

\* C8 witness: the first cleanup of a write-mode process saved a book that
\* holds a transaction and then ended the session.
AutoSaveOnExitWitness ==
    /\ last.op = "cleanup_session"
    /\ cleanups = 1
    /\ write_mode
    /\ last.calls = <<Call("save", TRUE), Call("end", TRUE)>>
    /\ \E p \in Paths : disk[p] # <<>>
    /\ live = {}

\* C9: add_transaction changes nothing but the book in memory: the files,
\* the lock files and the sessions are as before, and a successful call
\* appends one transaction to the book.  The content of a file changes only
\* in a commit step or in the exit cleanup of a write-mode process.
DiskChangesOnlyOnSave ==
    [][ /\ last'.op = "add_transaction" =>
              /\ disk' = disk
              /\ lock' = lock
              /\ live' = live
              /\ current_session' = current_session
              /\ last'.result = "Created" =>
                    /\ Len(book') = Len(book) + 1
                    /\ SubSeq(book', 1, Len(book)) = book
        /\ disk' # disk =>
              \/ last'.op = "commit"
              \/ last'.op = "cleanup_session" /\ write_mode
      ]_vars

\* C9 witness: add_transaction has succeeded and the file of the session's
\* store does not hold the book.
DiskChangesOnlyOnSaveWitness ==
    /\ last.op = "add_transaction"
    /\ last.result = "Created"
    /\ \E s \in live : s.id = current_session /\ disk[s.path] # book

\* C10 (as amended): a probe that fails is treated as one that reports
\* GnuCash absent.  A handler whose first probe failed or reported absence
\* goes on to remove_stale_lock and to open the store; when the probe of
\* remove_stale_lock failed or reported absence, os.remove is called.  The
\* owner counts as present only when a probe completed and reported it
\* running, and no step in which a probe did so calls os.remove.
ProbeFailureAssumesAbsent ==
    BrokeLock(last) =>
       /\ last.probes[1] \in {"failed", "absent"} =>
             /\ Len(last.probes) = 2
             /\ Made("Session")
       /\ (Len(last.probes) = 2 /\ last.probes[2] \in {"failed", "absent"}) =>
             Made("remove")
       /\ (\E i \in 1..Len(last.probes) : last.probes[i] = "running") =>
             /\ ~Made("remove")
             /\ lock[StorePath(last)] = "foreign"
       /\ Made("remove") => Len(last.probes) = 2

\* C10 witness: both probes failed and the lock file was deleted.
ProbeFailureAssumesAbsentWitness ==
    /\ BrokeLock(last)
    /\ last.probes = <<"failed", "failed">>
    /\ Call("remove", TRUE) \in CallsMade
    /\ lock[StorePath(last)] # "foreign"

\* C10 (as claimed): fail-safe probe.  GnuCash counts as absent only when
\* the probe completed and reported absence; after a probe that failed the
\* handler gives up as it does when GnuCash runs, and os.remove is called
\* only in a step all of whose probes reported absence.
FailSafeProbe ==
    BrokeLock(last) =>
       /\ last.probes[1] = "failed" =>
             /\ last.result \in {"CannotBreakLock", "Exit1"}
             /\ ~Made("Session")
       /\ Made("remove") =>
             \A i \in 1..Len(last.probes) : last.probes[i] = "absent"

\* The preconditions of add_transaction in the order C11 lists them, each
\* with the error it is reported by: whether the call with arguments a, made
\* with or without a session open, fails the precondition.
Preconditions(open, a) ==
    LET names == FullNames(AccountTree)
        src   == find_account(names, a.from_account)
        dst   == find_account(names, a.to_account)
    IN << [error |-> "NoSession",        fails |-> ~open],
          [error |-> "InvalidAmount",    fails |-> a.amount <= 0],
          [error |-> "SourceNotFound",   fails |-> src = 0],
          [error |-> "DestNotFound",     fails |-> dst = 0],
          [error |-> "MissingCommodity",
           fails |-> src # 0 /\ AccountTree[src].commodity = "none"],
          [error |-> "CurrencyMismatch",
           fails |-> /\ src # 0
                     /\ dst # 0
                     /\ AccountTree[dst].commodity # "none"
                     /\ AccountTree[src].commodity # AccountTree[dst].commodity],
          [error |-> "InvalidDate",
           fails |-> a.date # NoDate /\ ~strptime_ok(a.date)] >>

\* C11: validation order of add_transaction.  The error returned is the one
\* of the earliest precondition that fails, in the order no session,
\* non-positive amount, source not found, destination not found, source
\* without commodity, currency mismatch, invalid date, and such a call has
\* made no library call; when none fails the call goes on to construct the
\* transaction.  (add_transaction leaves current_session as it found it.)
ValidationOrder ==
    last.op = "add_transaction" =>
       LET checks == Preconditions(current_session # None, last.args)
           failed == {i \in 1..Len(checks) : checks[i].fails}
       IN IF failed = {}
          THEN last.result \in {"Created", "ErrorCreating"}
          ELSE /\ last.result = checks[Min(failed)].error
               /\ last.calls = <<>>

\* C11 witness: a call with a non-positive amount, a source that resolves to
\* no account and a date that is no calendar date, made with a session open,
\* was answered with the error for the amount.
ValidationOrderWitness ==
    /\ last.op = "add_transaction"
    /\ current_session # None
    /\ last.args.amount <= 0
    /\ find_account(FullNames(AccountTree), last.args.from_account) = 0
    /\ last.args.date # NoDate
    /\ ~strptime_ok(last.args.date)
    /\ last.result = "InvalidAmount"

TransactionLimit ==
    (/\ last.op = "get_transactions"
     /\ last.result = "Transactions"
     /\ \A i \in 1..Len(book) : ~book[i].open) =>
       LET splits == GetSplitList(book, last.out.account)
           n      == Len(splits)
           limit  == last.args.limit
           lines  == last.out.lines
       IN /\ Len(lines) = IF limit < n THEN limit ELSE n
          /\ Len(lines) <= limit
          /\ lines = SubSeq(splits, n - Len(lines) + 1, n)

\* C14: startup failures abort.  When main finds GNUCASH_FILE unset, the
\* file missing, or a lock file beside it while its probe reports GnuCash
\* running, the process exits with status 1: no Session has been
\* constructed, no lock file or store has changed and no tool is
\* registered; the status and the empty tool set stay until the process is
\* gone.
StartupFailuresAbort ==
    [][ /\ ( /\ last'.op = "main"
             /\ \/ last'.args.env_file = NoFile
                \/ last'.args.env_file \notin ExistingFiles
                \/ last'.probes # <<>> /\ last'.probes[1] = "running" ) =>
              /\ exit_code' = 1
              /\ phase' = "exiting"
              /\ current_session' = None
              /\ live' = {}
              /\ opened' = 0
              /\ advertised' = {}
              /\ lock' = lock
              /\ disk' = disk
              /\ \A i \in 1..Len(last'.calls) :
                    last'.calls[i].fn \notin {"Session", "remove"}
        /\ exit_code = 1 =>
              /\ exit_code' = 1
              /\ advertised' = {}
              /\ live' = {}
              /\ phase' = "exited"
      ]_vars

\* C14 witness: main found the lock file of the configured store, the probe
\* reported GnuCash running, and the process is exiting with status 1, the
\* lock file in place.
StartupFailuresAbortWitness ==
    /\ last.op = "main"
    /\ last.probes = <<"running">>
    /\ exit_code = 1
    /\ lock[last.args.env_file] = "foreign"
    /\ advertised = {}

\* C15 (as claimed): while the process serves, in read-only and in write
\* mode, open_file and close_file are among the tools registered with mcp.
SessionToolsAdvertised ==
    phase = "serving" => {"open_file", "close_file"} \subseteq advertised

\* C16: idempotent listing.  What list_accounts returns is the full names of
\* the tree, each once, in ascending order: the one sequence with that
\* property, so calls on an unchanged tree return the same output.  The five
\* read tools leave the session, the book, the lock files and the stores as
\* they were.
IdempotentListing ==
    [][ /\ last'.op \in ReadTools =>
              /\ current_session' = current_session
              /\ live' = live
              /\ opened' = opened
              /\ book' = book
              /\ lock' = lock
              /\ disk' = disk
        /\ (last'.op = "list_accounts" /\ last'.result = "Listed") =>
              /\ Len(last'.out) = Len(AccountTree)
              /\ {last'.out[i] : i \in 1..Len(last'.out)}
                    = {AccountTree[i].full_name : i \in 1..Len(AccountTree)}
              /\ \A i, j \in 1..Len(last'.out) :
                    i < j => Before(last'.out[i], last'.out[j])
      ]_vars

\* C16 witness: list_accounts has answered on a book that holds a
\* transaction, in an order that is not the order of the enumeration.
IdempotentListingWitness ==
    /\ last.op = "list_accounts"
    /\ last.result = "Listed"
    /\ last.out # FullNames(AccountTree)
    /\ book # <<>>
    /\ current_session # None

\* C17 (as claimed): one resolver for all operations.  For every account
\* tree and every name, the search get_account_balance, get_transactions
\* and get_account_info make selects the account find_account, the resolver
\* of add_transaction, selects.
OneResolver == (rFound # -1 /\ rTarget # -1) => rTarget = rFound

\* C18: no-session behaviour.  A successful close_file leaves no session
\* open, and while the process serves only a successful open_file opens one
\* again.  With no session open every read tool, add_transaction and commit
\* return the no-file-open error, and close_file reports that nothing is
\* open; none of them makes a library call or changes the book, a store, a
\* lock file or the sessions.
NoSessionBehaviour ==
    [][ /\ (last'.op = "close_file" /\ last'.result = "Closed") =>
              /\ current_session # None
              /\ current_session' = None
              /\ live' = {}
        /\ (phase = "serving" /\ current_session = None /\ current_session' # None) =>
              /\ last'.op = "open_file"
              /\ last'.result = "Opened"
        /\ ( /\ phase = "serving"
             /\ current_session = None
             /\ last'.op \in ReadTools \cup WriteTools \cup {"close_file"} ) =>
              /\ last'.result =
                    IF last'.op = "close_file" THEN "NothingOpen" ELSE "NoSession"
              /\ last'.calls = <<>>
              /\ current_session' = None
              /\ book' = book
              /\ disk' = disk
              /\ lock' = lock
              /\ live' = live
      ]_vars

\* C18 witness: in write mode, after close_file has closed the session, a
\* second close_file reported that nothing is open.
NoSessionBehaviourWitness ==
    /\ phase = "serving"
    /\ write_mode
    /\ opened = 1
    /\ current_session = None
    /\ last.op = "close_file"
    /\ last.result = "NothingOpen"

NoPendingChangeLost ==
    [][ \A s \in live :
           (s.rw /\ s.id = current_session /\ s \notin live') =>
              \A i \in 1..Len(book) :
                 ~book[i].open =>
                    \E j \in 1..Len(disk'[s.path]) : disk'[s.path][j] = book[i]
      ]_vars

\* The value of a split in hundredths, the smallest unit of the commodities
\* of the model.
InHundredths(split) == split.num * (get_fraction("USD") \div split.den)

RECURSIVE SumValues(_)
SumValues(splits) ==
    IF splits = <<>> THEN 0 ELSE InHundredths(splits[1]) + SumValues(Tail(splits))

\* The split sum of an account, and the sum over all accounts.
SplitSum(txs, account) == SumValues(GetSplitList(txs, account))

TotalOfSplits(txs) == SumValues(AllSplits(txs))

\* C21: conservation of balances.  A successful add_transaction lowers the
\* split sum of the resolved source account by scaled/fraction, raises that
\* of the resolved destination account by scaled/fraction (an account that
\* is both is unchanged), leaves every other account's split sum as it was,
\* and leaves the sum over all accounts as it was.
ConservationOfBalances ==
    [][ (last'.op = "add_transaction" /\ last'.result = "Created") =>
          LET names    == FullNames(AccountTree)
              src      == find_account(names, last'.args.from_account)
              dst      == find_account(names, last'.args.to_account)
              fraction == get_fraction(AccountTree[src].commodity)
              scaled   == amount_int(last'.args.amount, fraction)
              moved    == scaled * (get_fraction("USD") \div fraction)
          IN /\ \A a \in 1..Len(AccountTree) :
                   SplitSum(book', a) - SplitSum(book, a)
                      = (IF a = dst THEN moved ELSE 0) - (IF a = src THEN moved ELSE 0)
             /\ src # dst =>
                   /\ SplitSum(book', src) = SplitSum(book, src) - moved
                   /\ SplitSum(book', dst) = SplitSum(book, dst) + moved
             /\ src = dst => SplitSum(book', src) = SplitSum(book, src)
             /\ TotalOfSplits(book') = TotalOfSplits(book)
      ]_vars

\* C21 witness: after a transfer into an account, a second transfer from
\* that account to itself has been committed and the account's split sum is
\* what the first transfer left.
ConservationOfBalancesWitness ==
    /\ last.op = "add_transaction"
    /\ last.result = "Created"
    /\ Len(book) = 2
    /\ find_account(FullNames(AccountTree), last.args.from_account)
          = find_account(FullNames(AccountTree), last.args.to_account)
    /\ SplitSum(book, find_account(FullNames(AccountTree), last.args.from_account)) > 0
    /\ \A i \in 1..Len(book) : ~book[i].open

\* C22: every transaction created by add_transaction moves a non-zero
\* amount.  After a successful add_transaction the scaled integer is at
\* least 1, the source split is strictly negative and the destination split
\* strictly positive.
NonZeroAmountMoved ==
    (last.op = "add_transaction" /\ last.result = "Created") =>
        LET names    == FullNames(AccountTree)
            src      == find_account(names, last.args.from_account)
            fraction == get_fraction(AccountTree[src].commodity)
            created  == book[Len(book)]
        IN /\ last.args.amount > 0
           /\ amount_int(last.args.amount, fraction) >= 1
           /\ created.splits[1].num < 0
           /\ created.splits[2].num > 0

====
